---- MODULE Spec2Model ----
(***************************************************************************)
(* LibGenMiner (src/libgenminer.py): the BookSearcher object, its browser  *)
(* session, the search history file and the interactive main() loop.       *)
(*                                                                         *)
(* The browser, the web page and the file system are the environment: the  *)
(* page a search sees, the stage at which a browser interaction fails and  *)
(* the outcome of the history file I/O are inputs of the actions.          *)
(***************************************************************************)
EXTENDS Integers, Sequences, FiniteSets, TLC

\* ---- bounds ------------------------------------------------------------
MaxRows == 3          \* data rows (after the header row) on a results page
MaxSeqRows == 1       \* the same, for the pages met in a sequence of calls
MaxResultsCap == 3    \* max_results is configured in 0..MaxResultsCap
MaxSearches == 2      \* search_books calls in one run
MaxCloses == 2        \* close() calls in one run (API client)

\* ---- program constants -------------------------------------------------
MinCols == 9          \* len(cols) >= 9
IsbnCol == 9          \* cols[9] is read when len(cols) > 9

None == 0             \* self.driver = None; a launched session is 1, 2, ...

Terms == {"dune", "emma"}

Min(a, b) == IF a < b THEN a ELSE b

\* ---- the results page --------------------------------------------------
\* A <tr> of the results table: its position on the page (which stands for
\* the text of its cells), the number of <td> cells, and whether the title
\* cell cols[2] holds an <a> element.  The anchor is looked up only in rows
\* of at least MinCols cells.
RowShapes ==
    { [cells |-> 5,  anchor |-> FALSE],
      [cells |-> 9,  anchor |-> TRUE],
      [cells |-> 9,  anchor |-> FALSE],
      [cells |-> 10, anchor |-> TRUE] }

\* the rows met in a sequence of calls: those that reach find_element, with
\* and without the anchor
SeqRowShapes == { s \in RowShapes : s.cells = MinCols }

HeaderRow == [id |-> 0, cells |-> 0, anchor |-> FALSE]

DataRows(k, shapes) ==
    { [i \in 1..k |-> [id |-> i, cells |-> f[i].cells, anchor |-> f[i].anchor]] :
        f \in [1..k -> shapes] }

\* the <tr> lists a located table can hold: none at all, or a header row
\* followed by up to MaxRows data rows
TrLists(maxRows, shapes) ==
    {<<>>} \cup
    UNION { { <<HeaderRow>> \o d : d \in DataRows(k, shapes) } : k \in 0..maxRows }

\* table = FALSE: no element of class "c" appears within the timeout
NoTable == [table |-> FALSE, trs |-> <<>>]

PagesUpTo(maxRows, shapes) ==
    {NoTable} \cup { [table |-> TRUE, trs |-> t] : t \in TrLists(maxRows, shapes) }

Pages == PagesUpTo(MaxRows, RowShapes)

SeqPages == PagesUpTo(MaxSeqRows, SeqRowShapes)

\* ---- BookData ----------------------------------------------------------
BookData(row) ==
    [ title         |-> row.id,
      isbn          |-> IF row.cells > IsbnCol THEN row.id ELSE 0,
      download_link |-> row.id ]

\* seq[lo:hi] of Python for 0 <= lo, 0 <= hi
PySlice(seq, lo, hi) == SubSeq(seq, lo + 1, Min(hi, Len(seq)))

\* rows = table.find_elements("tr")[1 : max_results + 1]
RowsSlice_NoCap(trs, n) == PySlice(trs, 1, Len(trs))

RowsSlice(trs, n) == PySlice(trs, 1, n + 1)

\* the for loop over rows inside the try block: a row that raises ends the
\* loop, the except clause keeps the books appended so far
RECURSIVE ParseRows(_, _)
ParseRows(rows, books) ==
    IF rows = <<>> THEN [books |-> books, error |-> FALSE]
    ELSE LET row == Head(rows) IN
         IF row.cells >= MinCols
         THEN IF row.anchor
              THEN ParseRows(Tail(rows), Append(books, BookData(row)))
              ELSE [books |-> books, error |-> TRUE]
         ELSE ParseRows(Tail(rows), books)

\* _extract_book_data: raised is what leaves the method as an exception,
\* error is what its except clause logged
ExtractBookData_Reraise(page, n) ==
    IF ~page.table
    THEN [books |-> <<>>, error |-> TRUE, raised |-> TRUE]
    ELSE LET p == ParseRows(RowsSlice(page.trs, n), <<>>)
         IN  [books |-> p.books, error |-> p.error, raised |-> p.error]

ExtractBookData(page, n) ==
    IF ~page.table
    THEN [books |-> <<>>, error |-> TRUE, raised |-> FALSE]
    ELSE LET p == ParseRows(RowsSlice(page.trs, n), <<>>)
         IN  [books |-> p.books, error |-> p.error, raised |-> FALSE]

\* _create_dataframe: one frame row per book, in order
CreateDataframe(books) == [i \in 1..Len(books) |-> books[i]]

\* ---- the search history file -------------------------------------------
\* The file at search_history_file: absent, text that is not JSON (an empty
\* or cut-off file included), a JSON value that is not an array, or a JSON
\* array of entries.
Absent == [kind |-> "absent", entries |-> <<>>]

Garbled == [kind |-> "garbled", entries |-> <<>>]

ObjectFile == [kind |-> "object", entries |-> <<>>]

ArrayFile(entries) == [kind |-> "array", entries |-> entries]

\* json.load(f): ok is FALSE when it raises JSONDecodeError
JsonLoad(file) ==
    [ ok     |-> file.kind \in {"object", "array"},
      isList |-> file.kind = "array",
      value  |-> file.entries ]

\* json.dump(history, f, indent=4) run to completion
JsonDump(history) == ArrayFile(history)

HistoryEntry_NoCount(search_term, results_count, now) ==
    [ timestamp |-> now, search_term |-> search_term, results_count |-> 0 ]

HistoryEntry(search_term, results_count, now) ==
    [ timestamp |-> now, search_term |-> search_term, results_count |-> results_count ]

OldEntry == HistoryEntry("old", 0, 0)

\* what the file system does to this call's reads and writes:
\*   read_error  : open(history_file, 'r') raises
\*   open_error  : open(history_file, 'w') raises, the file is untouched
\*   write_error : open(history_file, 'w') has truncated the file and the
\*                 dump or the close raises before the text is complete
HistIO == {"ok", "read_error", "open_error", "write_error"}

IoPossible(file, io) == (io = "read_error") => (file.kind # "absent")

\* _save_search_history
SaveSearchHistory_Raises(file, search_term, results_count, now, io) ==
    LET loaded == JsonLoad(file)
        fails  == \/ io # "ok"
                  \/ file.kind # "absent" /\ ~(loaded.ok /\ loaded.isList)
    IN  IF fails
        THEN [file |-> file, error |-> TRUE, raised |-> TRUE]
        ELSE [file   |-> JsonDump(Append(loaded.value,
                                         HistoryEntry(search_term, results_count, now))),
              error  |-> FALSE, raised |-> FALSE]

SaveSearchHistory(file, search_term, results_count, now, io) ==
    LET exists  == file.kind # "absent"
        loaded  == JsonLoad(file)
        history == IF exists THEN loaded.value ELSE <<>>
        swallow(f) == [file |-> f, error |-> TRUE, raised |-> FALSE]
    IN  IF exists /\ io = "read_error" THEN swallow(file)
        ELSE IF exists /\ ~loaded.ok THEN swallow(file)        \* JSONDecodeError
        ELSE IF exists /\ ~loaded.isList THEN swallow(file)    \* no append on the value
        ELSE IF io = "open_error" THEN swallow(file)
        ELSE IF io = "write_error" THEN swallow(Garbled)
        ELSE [file   |-> JsonDump(Append(history,
                                         HistoryEntry(search_term, results_count, now))),
              error  |-> FALSE, raised |-> FALSE]

\* ---- the browser session -----------------------------------------------
\* the stage of search_books before the results table at which the browser
\* raises: launching the session, driver.get, waiting for the input field,
\* finding the selector, waiting for or clicking the submit button
PreStages == {"none", "launch", "get", "input", "select", "submit"}

\* "if not self.driver"
NeedsDriver_Always(drv) == TRUE

NeedsDriver(drv) == drv = None

\* _initialize_driver run to completion: a new session is launched and bound
InitializeDriver(launched) == [driver |-> launched + 1, launched |-> launched + 1]

\* a launch cannot fail when no launch is attempted; a session that has been
\* quit rejects the first command sent to it
PrePossible(drv, quits, pre) ==
    /\ (pre = "launch") => NeedsDriver(drv)
    /\ (~NeedsDriver(drv) /\ quits > 0) => (pre = "get")

\* close(): the number of driver.quit() calls made so far, after the call
Close(drv, quits) == IF drv # None THEN quits + 1 ELSE quits

\* main(): "finally: searcher.close()"
MainCleanup_Skipped(drv, quits) == quits

MainCleanup(drv, quits) == Close(drv, quits)

\* ---- search_books ------------------------------------------------------
SearchBooks(drv, launched, file, n, search_term, pre, page, io, now) ==
    LET d == IF NeedsDriver(drv) /\ pre # "launch"
             THEN InitializeDriver(launched)
             ELSE [driver |-> drv, launched |-> launched]
    IN  IF pre # "none"
        THEN [ driver |-> d.driver, launched |-> d.launched, history_file |-> file,
               outcome |-> "raised", books |-> <<>>, logged |-> {"Search error"} ]
        ELSE LET x == ExtractBookData(page, n)
                 h == IF x.raised
                      THEN [file |-> file, error |-> FALSE, raised |-> FALSE]
                      ELSE SaveSearchHistory(file, search_term, Len(x.books), now, io)
                 raised == x.raised \/ h.raised
             IN  [ driver |-> d.driver, launched |-> d.launched,
                   history_file |-> h.file,
                   outcome |-> IF raised THEN "raised" ELSE "returned",
                   books   |-> IF raised THEN <<>> ELSE CreateDataframe(x.books),
                   logged  |-> (IF x.error THEN {"Data extraction error"} ELSE {})
                          \cup (IF h.error THEN {"Error saving search history"} ELSE {})
                          \cup (IF raised THEN {"Search error"} ELSE {}) ]

\* ---- state -------------------------------------------------------------
VARIABLES
    max_results,    \* config.get("max_results")
    driver,         \* self.driver: None or the session it is bound to
    launched,       \* browser sessions launched so far
    quitCalls,      \* driver.quit() calls made so far
    history_file,   \* content of the search history file
    call,           \* the latest operation and its inputs
    ret,            \* what the latest operation returned and logged
    nSearches,      \* search_books calls so far
    nCloses,        \* close() calls so far
    pc,             \* "api": a client calling the methods; "menu"/"exited": main()
    results,        \* main(): TRUE once its local variable results is bound
    nRaised,        \* search_books calls that raised an exception so far
    launchedBy      \* the number of the search_books call that launched the session

vars == <<max_results, driver, launched, quitCalls, history_file, call, ret,
          nSearches, nCloses, pc, results, nRaised, launchedBy>>

NoCall == [op |-> "init", term |-> "", pre |-> "none", page |-> NoTable, io |-> "ok"]

NoRet == [outcome |-> "none", books |-> <<>>, logged |-> {}, export |-> "none"]

InitialFiles == {Absent, Garbled, ObjectFile, ArrayFile(<<OldEntry>>)}

\* BookSearcher.__init__ has run, for a client that calls its methods
Init ==
    /\ max_results \in 0..MaxResultsCap
    /\ driver = None
    /\ launched = 0
    /\ quitCalls = 0
    /\ history_file \in InitialFiles
    /\ call = NoCall
    /\ ret = NoRet
    /\ nSearches = 0
    /\ nCloses = 0
    /\ pc = "api"
    /\ results = FALSE
    /\ nRaised = 0
    /\ launchedBy = 0

\* what the environment hands to one search_books call: the stage at which
\* the browser raises before the results table, or else the page it shows
\* and what the file system does to the history file
SearchInputs(pages) ==
    { [pre |-> p, page |-> NoTable, io |-> "ok"] : p \in PreStages \ {"none"} }
    \cup { [pre |-> "none", page |-> pg, io |-> i] : pg \in pages, i \in HistIO }

PageInputs == SearchInputs(Pages)

SeqInputs == SearchInputs(SeqPages)

SearchInputsOk(in) ==
    /\ PrePossible(driver, quitCalls, in.pre)
    /\ IoPossible(history_file, in.io)

ExportAnswers(r) ==
    IF r.outcome = "returned" /\ r.books # <<>> THEN {"none", "ok", "raised"} ELSE {"none"}

\* a client calls search_books(term)
ApiSearch(term, in) ==
    /\ pc = "api"
    /\ nSearches < MaxSearches
    /\ SearchInputsOk(in)
    /\ LET r == SearchBooks(driver, launched, history_file, max_results,
                            term, in.pre, in.page, in.io, nSearches + 1)
       IN  /\ driver' = r.driver
           /\ launched' = r.launched
           /\ history_file' = r.history_file
           /\ ret' = [outcome |-> r.outcome, books |-> r.books,
                      logged |-> r.logged, export |-> "none"]
    /\ call' = [op |-> "search", term |-> term, pre |-> in.pre, page |-> in.page,
                io |-> in.io]
    /\ nSearches' = nSearches + 1
    /\ nRaised' = IF ret'.outcome = "raised" THEN nRaised + 1 ELSE nRaised
    /\ launchedBy' = IF launched' > launched THEN nSearches + 1 ELSE launchedBy
    /\ UNCHANGED <<max_results, quitCalls, nCloses, pc, results>>

\* a client calls close()
ApiClose ==
    /\ pc = "api"
    /\ nCloses < MaxCloses
    /\ quitCalls' = Close(driver, quitCalls)
    /\ call' = [NoCall EXCEPT !.op = "close"]
    /\ ret' = [NoRet EXCEPT !.outcome = "returned"]
    /\ nCloses' = nCloses + 1
    /\ UNCHANGED <<max_results, driver, launched, history_file, nSearches, pc, results,
                   nRaised, launchedBy>>

\* main(): menu choice 1, 2 or 3.  export is the answer to the export prompt
\* and what export_results then does: "none" (not asked or declined), "ok",
\* "raised".  An exception leaves the loop through the except and finally
\* clauses, which end in searcher.close().
MainSearch(term, in) ==
    /\ pc = "menu"
    /\ nSearches < MaxSearches
    /\ SearchInputsOk(in)
    /\ LET r == SearchBooks(driver, launched, history_file, max_results,
                            term, in.pre, in.page, in.io, nSearches + 1)
       IN  \E export \in ExportAnswers(r) :
           LET leaves == r.outcome = "raised" \/ export = "raised" IN
           /\ driver' = r.driver
           /\ launched' = r.launched
           /\ history_file' = r.history_file
           /\ ret' = [outcome |-> r.outcome, books |-> r.books,
                      logged |-> r.logged \cup
                                 (IF export = "raised" THEN {"Export error"} ELSE {}),
                      export |-> export]
           /\ results' = (results \/ r.outcome = "returned")
           /\ pc' = IF leaves THEN "exited" ELSE "menu"
           /\ quitCalls' = IF leaves THEN MainCleanup(r.driver, quitCalls) ELSE quitCalls
           /\ nCloses' = IF leaves THEN nCloses + 1 ELSE nCloses
    /\ call' = [op |-> "search", term |-> term, pre |-> in.pre, page |-> in.page,
                io |-> in.io]
    /\ nSearches' = nSearches + 1
    /\ nRaised' = IF ret'.outcome = "raised" THEN nRaised + 1 ELSE nRaised
    /\ launchedBy' = IF launched' > launched THEN nSearches + 1 ELSE launchedBy
    /\ UNCHANGED max_results

\* main(): menu choice 4 with results bound
MainExportLast(export) ==
    /\ pc = "menu"
    /\ results
    /\ export \in {"ok", "raised"}
    /\ call' = [NoCall EXCEPT !.op = "export"]
    /\ ret' = [NoRet EXCEPT !.export = export,
                            !.outcome = IF export = "ok" THEN "returned" ELSE "raised",
                            !.logged = IF export = "raised" THEN {"Export error"} ELSE {}]
    /\ pc' = IF export = "raised" THEN "exited" ELSE "menu"
    /\ quitCalls' = IF export = "raised" THEN MainCleanup(driver, quitCalls) ELSE quitCalls
    /\ nCloses' = IF export = "raised" THEN nCloses + 1 ELSE nCloses
    /\ UNCHANGED <<max_results, driver, launched, history_file, nSearches, results,
                   nRaised, launchedBy>>

\* main(): menu choice 5
MainExit ==
    /\ pc = "menu"
    /\ call' = [NoCall EXCEPT !.op = "exit"]
    /\ ret' = NoRet
    /\ pc' = "exited"
    /\ quitCalls' = MainCleanup(driver, quitCalls)
    /\ nCloses' = nCloses + 1
    /\ UNCHANGED <<max_results, driver, launched, history_file, nSearches, results,
                   nRaised, launchedBy>>

\* main(): KeyboardInterrupt, at a prompt (inSearch = FALSE) or while
\* search_books waits on the page after it has ensured the session; the
\* "except Exception" of search_books does not catch it
MainInterrupt(inSearch) ==
    /\ pc = "menu"
    /\ inSearch => (nSearches < MaxSearches /\ (~NeedsDriver(driver) => quitCalls = 0))
    /\ LET d == IF inSearch /\ NeedsDriver(driver)
                THEN InitializeDriver(launched)
                ELSE [driver |-> driver, launched |-> launched]
       IN  /\ driver' = d.driver
           /\ launched' = d.launched
           /\ quitCalls' = MainCleanup(d.driver, quitCalls)
    /\ call' = [NoCall EXCEPT !.op = "interrupt"]
    /\ ret' = [NoRet EXCEPT !.outcome = "raised"]
    /\ pc' = "exited"
    /\ nSearches' = IF inSearch THEN nSearches + 1 ELSE nSearches
    /\ nCloses' = nCloses + 1
    /\ nRaised' = IF inSearch THEN nRaised + 1 ELSE nRaised
    /\ launchedBy' = IF launched' > launched THEN nSearches + 1 ELSE launchedBy
    /\ UNCHANGED <<max_results, history_file, results>>

\* sequences of search_books and close calls on one BookSearcher
Next ==
    \/ \E term \in Terms, in \in SeqInputs : ApiSearch(term, in)
    \/ ApiClose

Spec == Init /\ [][Next]_vars

\* main(): the BookSearcher is constructed, then the menu loop runs
InitMain ==
    /\ max_results \in 0..MaxResultsCap
    /\ driver = None
    /\ launched = 0
    /\ quitCalls = 0
    /\ history_file \in InitialFiles
    /\ call = NoCall
    /\ ret = NoRet
    /\ nSearches = 0
    /\ nCloses = 0
    /\ pc = "menu"
    /\ results = FALSE
    /\ nRaised = 0
    /\ launchedBy = 0

NextMain ==
    \/ \E term \in Terms, in \in SeqInputs : MainSearch(term, in)
    \/ \E export \in {"ok", "raised"} : MainExportLast(export)
    \/ MainExit
    \/ \E inSearch \in BOOLEAN : MainInterrupt(inSearch)

SpecMain == InitMain /\ [][NextMain]_vars

\* one search_books call on a new BookSearcher, over every results page
PageSearch == \E term \in Terms, in \in PageInputs : ApiSearch(term, in)

NextPage == nSearches = 0 /\ PageSearch

SpecPage == Init /\ [][NextPage]_vars

\* ---- vocabulary of the properties ----------------------------------------
Range(seq) == { seq[i] : i \in DOMAIN seq }

IsSearch == call.op = "search"

Returned == ret.outcome = "returned"

Short(row) == row.cells < MinCols

WellFormed(row) == row.cells >= MinCols /\ row.anchor

FailsToParse(row) == row.cells >= MinCols /\ ~row.anchor

\* the first n rows after the header row of the page's table
FirstRowsAfterHeader(page, n) ==
    [i \in 1..Min(n, Len(page.trs) - 1) |-> page.trs[i + 1]]

RECURSIVE Records(_)
Records(rows) ==
    IF rows = <<>> THEN <<>> ELSE <<BookData(Head(rows))>> \o Records(Tail(rows))

\* the records of the rows of at least MinCols cells that come before the
\* first row that fails to parse
ParsedUpToFailure(page, n) ==
    LET rows  == FirstRowsAfterHeader(page, n)
        fails == { i \in DOMAIN rows : FailsToParse(rows[i]) }
        upto  == IF fails = {} THEN Len(rows)
                 ELSE (CHOOSE i \in fails : \A j \in fails : i <= j) - 1
    IN  Records(SelectSeq(SubSeq(rows, 1, upto), LAMBDA r : ~Short(r)))

\* the history file cannot be read as an array or cannot be written
HistoryFails(file, io) == io # "ok" \/ file.kind \in {"garbled", "object"}

\* the step is a search_books call that ran to a return or to an exception
SearchStep == call'.op = "search" /\ nSearches' = nSearches + 1

LastEntry(file) == file.entries[Len(file.entries)]

\* ---- C1 ------------------------------------------------------------------
\* C1: a row that fails to parse does not abort the batch: every well-formed
\* row after it among the first max_results data rows is in the records the
\* search returns.
C1_RowErrorsIsolated ==
    (IsSearch /\ call.pre = "none" /\ call.page.table) =>
        LET rows == FirstRowsAfterHeader(call.page, max_results) IN
        \A i \in DOMAIN rows :
            (WellFormed(rows[i]) /\ \E j \in 1..(i - 1) : FailsToParse(rows[j]))
                => (Returned /\ BookData(rows[i]) \in Range(ret.books))

\* ---- C2 ------------------------------------------------------------------
\* C2: a search never returns more than max_results records, and every
\* record comes from one of the first max_results rows after the header.
C2_NeverMoreThanMaxResults ==
    IsSearch =>
        /\ Len(ret.books) <= max_results
        /\ \A i \in DOMAIN ret.books : ret.books[i].title \in 1..max_results

C2_Witness ==
    /\ IsSearch /\ Returned
    /\ max_results = 2
    /\ Len(call.page.trs) = 4
    /\ \A i \in 2..4 : WellFormed(call.page.trs[i])
    /\ Len(ret.books) = 2

\* ---- C3 ------------------------------------------------------------------
\* C3: when the history file can be read and written, a search that returns
\* appends exactly one entry, with the term searched and the number of
\* records returned; a search that raises, and every other operation, leaves
\* the history file as it was.
C3_OneEntryPerReturnedSearch ==
    [][ IF SearchStep
        THEN /\ (ret'.outcome = "returned" /\ ~HistoryFails(history_file, call'.io)) =>
                    /\ history_file'.kind = "array"
                    /\ Len(history_file'.entries) = Len(history_file.entries) + 1
                    /\ SubSeq(history_file'.entries, 1, Len(history_file.entries))
                           = history_file.entries
                    /\ LastEntry(history_file').search_term = call'.term
                    /\ LastEntry(history_file').results_count = Len(ret'.books)
             /\ (ret'.outcome = "raised") => (history_file' = history_file)
        ELSE history_file' = history_file ]_vars

C3_Witness ==
    /\ IsSearch /\ Returned
    /\ nSearches = 2 /\ nRaised = 0
    /\ history_file.kind = "array" /\ Len(history_file.entries) = 3
    /\ history_file.entries[2].results_count = 1
    /\ history_file.entries[2].search_term # call.term
    /\ LastEntry(history_file).search_term = call.term
    /\ LastEntry(history_file).results_count = 0
    /\ ret.books = <<>>

\* ---- C4 ------------------------------------------------------------------
\* C4: a failure before the results table is logged and leaves search_books
\* as an exception; without one, search_books returns, also when the table
\* is not found or a row cannot be parsed, and what it returns is the records
\* parsed up to that point.
C4_FailurePolicy ==
    IsSearch =>
        IF call.pre # "none"
        THEN ret.outcome = "raised" /\ "Search error" \in ret.logged
        ELSE /\ Returned
             /\ ret.books = ParsedUpToFailure(call.page, max_results)
             /\ "Search error" \notin ret.logged

C4_Witness ==
    /\ IsSearch /\ Returned
    /\ call.pre = "none"
    /\ max_results = 3
    /\ Len(call.page.trs) = 4
    /\ WellFormed(call.page.trs[2])
    /\ FailsToParse(call.page.trs[3])
    /\ ret.books = <<BookData(call.page.trs[2])>>
    /\ "Data extraction error" \in ret.logged

\* ---- C5 ------------------------------------------------------------------
\* C5: when the history file cannot be read, parsed as an array or written,
\* the search still returns, with the records it returns otherwise, and the
\* error is logged.
C5_HistoryNeverAborts ==
    [][ (SearchStep /\ call'.pre = "none" /\ HistoryFails(history_file, call'.io)) =>
            /\ ret'.outcome = "returned"
            /\ ret'.books = ParsedUpToFailure(call'.page, max_results)
            /\ "Error saving search history" \in ret'.logged ]_vars

C5_Witness ==
    /\ IsSearch /\ Returned
    /\ call.io = "write_error"
    /\ "Error saving search history" \in ret.logged
    /\ Len(ret.books) = 1

\* ---- C6 ------------------------------------------------------------------
\* C6: the history log is append-only: whatever an operation does, and
\* whether or not its reads and writes fail, an array in the history file
\* stays an array that starts with the same entries and has at most one more.
C6_AppendOnly ==
    [][ (history_file.kind = "array") =>
            /\ history_file'.kind = "array"
            /\ Len(history_file'.entries) \in
                   {Len(history_file.entries), Len(history_file.entries) + 1}
            /\ SubSeq(history_file'.entries, 1, Len(history_file.entries))
                   = history_file.entries ]_vars

\* ---- C7 ------------------------------------------------------------------
\* C7: over any sequence of search_books and close calls the browser session
\* is quit at most once.
C7_QuitAtMostOnce == quitCalls <= 1

\* ---- C8 ------------------------------------------------------------------
\* C8: no session exists at construction, at most one is ever launched, a
\* search that gets past the launch has launched or reused that one session,
\* and no session is quit except by a close() call.
C8_AtMostOneSession ==
    /\ launched <= 1
    /\ (driver = None) <=> (launched = 0)
    /\ (driver # None) => (driver = 1)
    /\ (nSearches = 0) => (driver = None)
    /\ (IsSearch /\ call.pre # "launch") => (launched = 1)
    /\ quitCalls <= nCloses

C8_Witness ==
    /\ pc = "api"
    /\ IsSearch /\ Returned
    /\ nSearches = 2 /\ nRaised = 1
    /\ launchedBy = 1
    /\ driver = 1 /\ launched = 1
    /\ nCloses = 0 /\ quitCalls = 0

C10_ShortRowsSkipped ==
    (IsSearch /\ call.pre = "none" /\ call.page.table) =>
        LET rows == FirstRowsAfterHeader(call.page, max_results) IN
        (\E j \in DOMAIN rows : Short(rows[j])) =>
            /\ Returned
            /\ ret.books = Records(SelectSeq(rows, WellFormed))
====
